---- MODULE Spec2Model ----
(***************************************************************************)
(* State-machine model of the OS interop / paste-injection engine of       *)
(* Windows-11-Clipboard-History-For-Linux (src-tauri/src): session         *)
(* detection (session.rs), focus save/restore (focus_manager.rs), the      *)
(* keystroke strategy chain (input_simulator.rs), the GIF clipboard        *)
(* publisher (gif_manager.rs) and the window-state store                   *)
(* (config_manager.rs).                                                    *)
(*                                                                         *)
(* The model is of the Linux build (the cfg(target_os = "linux") items).    *)
(*                                                                         *)
(* Strings that the code inspects (environment values) are sequences of    *)
(* one-character strings, so that trim() and to_lowercase() are computed   *)
(* rather than assumed.                                                    *)
(*                                                                         *)
(* The functions of session.rs and focus_manager.rs are one action each.   *)
(* simulate_paste_keystroke and paste_gif_to_clipboard_with_uri are one    *)
(* action per call they make (a strategy, the download, a helper, the      *)
(* fallback), with the position in the function held in the pc field; the  *)
(* outcome of every external call is an input of the action.               *)
(* Concurrent first access to the session type is one action per step of   *)
(* a thread inside OnceLock::get_or_init; concurrent save and restore of    *)
(* the focus slot are one action per access of a thread to the slot.       *)
(***************************************************************************)
EXTENDS Integers, Sequences, FiniteSets, TLC

VARIABLES
    env,                  \* process environment: variable name -> [set, val]
    SESSION_TYPE,         \* session.rs OnceLock<SessionType>: "None" or a variant
    sessionRet,           \* last call into session.rs: [fn, val]
    sessionCalls,         \* number of calls into session.rs so far
    detectRuns,           \* number of evaluations of SessionType::detect
    firstSnapshot,        \* environment read by the first evaluation of detect
    firstValue,           \* value computed by the first evaluation of detect
    onceRunning,          \* OnceLock: a thread is inside the initialising closure
    threads,              \* concurrent callers of get_session_type: [pc, ret, waited]
    LAST_FOCUSED_WINDOW,  \* focus_manager.rs AtomicU32 slot, 0 = none saved
    xFocus,               \* X server: window holding the input focus, 0 = None
    xWindows,             \* X server: windows that exist
    savedEver,            \* some save_focused_window has stored into the slot
    focusOp,              \* last focus_manager call: [op, ret, result, window, calls]
    focusThreads,         \* concurrent callers of save/restore: [op, pc, val, pending, result]
    storedValues,         \* handles whose store by a concurrent save has completed
    pasteOp,              \* simulate_paste_keystroke: [pc, session, result, attempts, blocked]
    files,                \* GIF cache directory: url hash -> file state
    lastFetch,            \* last download_gif_to_file: [url, ok, path, net, created, failed]
    gifOp,                \* paste_gif_to_clipboard_with_uri in progress or returned
    config,               \* config_manager.rs ConfigManager: [state, dirty]
    disk,                 \* the data directory and window_state.json in it
    configOp              \* last ConfigManager call: [op, attempted, ok]

sessionVars == <<SESSION_TYPE, sessionRet, sessionCalls, detectRuns,
                 firstSnapshot, firstValue, onceRunning, threads>>
focusThreadVars == <<focusThreads, storedValues>>

focusVars == <<LAST_FOCUSED_WINDOW, xFocus, xWindows, savedEver, focusOp,
               focusThreadVars>>

pasteVars == <<pasteOp>>

gifVars == <<files, lastFetch, gifOp>>

configVars == <<config, disk, configOp>>

vars == <<env, sessionVars, focusVars, pasteVars, gifVars, configVars>>

----------------------------------------------------------------------------
(* Bounds *)

MaxCalls == 3
NumThreads == 2
MaxWindow == 3
NumUrls == 3
NumHashes == 2
MaxCoord == 1

----------------------------------------------------------------------------
(* Strings as character sequences *)

Str_wayland == <<"w", "a", "y", "l", "a", "n", "d">>
Str_x11 == <<"x", "1", "1">>
Str_tty == <<"t", "t", "y">>
Str_wayland0 == <<"w", "a", "y", "l", "a", "n", "d", "-", "0">>
Str_display0 == <<":", "0">>
Str_rundir == <<"/", "r", "u", "n">>

\* A byte sequence that is not valid UTF-8 is marked by this element.
InvalidByte == "\\xFF"

Whitespace == {" ", "\t", "\n"}

UpperLetters == <<"W", "A", "Y", "L", "N", "D", "X", "T">>
LowerLetters == <<"w", "a", "y", "l", "n", "d", "x", "t">>

IsUnicode(s) == \A i \in 1..Len(s) : s[i] # InvalidByte

\* char::to_lowercase on the letters of the model's alphabet
LowerChar(c) ==
    IF \E i \in 1..Len(UpperLetters) : UpperLetters[i] = c
    THEN LowerLetters[CHOOSE i \in 1..Len(UpperLetters) : UpperLetters[i] = c]
    ELSE c

UpperChar(c) ==
    IF \E i \in 1..Len(LowerLetters) : LowerLetters[i] = c
    THEN UpperLetters[CHOOSE i \in 1..Len(LowerLetters) : LowerLetters[i] = c]
    ELSE c

\* str::to_lowercase
to_lowercase(s) == [i \in 1..Len(s) |-> LowerChar(s[i])]

to_uppercase(s) == [i \in 1..Len(s) |-> UpperChar(s[i])]

RECURSIVE trim_start(_)
trim_start(s) ==
    IF s # <<>> /\ Head(s) \in Whitespace THEN trim_start(Tail(s)) ELSE s

RECURSIVE trim_end(_)
trim_end(s) ==
    IF s # <<>> /\ s[Len(s)] \in Whitespace
    THEN trim_end(SubSeq(s, 1, Len(s) - 1))
    ELSE s

\* str::trim
trim(s) == trim_end(trim_start(s))

----------------------------------------------------------------------------
(* The process environment *)

Unset == [set |-> FALSE, val |-> <<>>]
Value(s) == [set |-> TRUE, val |-> s]

Capitalized(s) == [i \in 1..Len(s) |-> IF i = 1 THEN UpperChar(s[i]) ELSE s[i]]

\* Spellings of a word: case variants and surrounding whitespace.
Spellings(w) ==
    { w, to_uppercase(w), Capitalized(w),
      <<" ">> \o w, w \o <<"\n">>, <<" ">> \o to_uppercase(w) \o <<" ">> }

XdgValues ==
    {Unset, Value(<<>>), Value(Str_tty), Value(<<InvalidByte>>),
     Value(Str_x11 \o <<"x">>)}
    \cup { Value(s) : s \in Spellings(Str_wayland) \cup Spellings(Str_x11) }

WaylandDisplayValues == {Unset, Value(<<>>), Value(Str_wayland0)}
DisplayValues == {Unset, Value(Str_display0)}
RuntimeDirValues == {Unset, Value(Str_rundir)}

EnvNames == {"XDG_SESSION_TYPE", "WAYLAND_DISPLAY", "DISPLAY", "XDG_RUNTIME_DIR"}

EnvDomain(name) ==
    CASE name = "XDG_SESSION_TYPE" -> XdgValues
      [] name = "WAYLAND_DISPLAY" -> WaylandDisplayValues
      [] name = "DISPLAY" -> DisplayValues
      [] name = "XDG_RUNTIME_DIR" -> RuntimeDirValues

\* std::env::var: Ok only for a variable that is set and valid Unicode
env_var(e, name) ==
    IF e[name].set /\ IsUnicode(e[name].val)
    THEN [ok |-> TRUE, val |-> e[name].val]
    ELSE [ok |-> FALSE, val |-> <<>>]

\* std::env::var_os(..).is_some(): set, whatever the bytes
env_var_os_is_some(e, name) == e[name].set

----------------------------------------------------------------------------
(* session.rs *)

SessionTypes == {"Wayland", "X11", "Unknown"}

\* A plausible bug: the display signals are consulted before XDG_SESSION_TYPE.
detect_DisplayFirst(e) ==
    IF env_var_os_is_some(e, "WAYLAND_DISPLAY")
    THEN [session |-> "Wayland", source |-> "WAYLAND_DISPLAY"]
    ELSE IF env_var_os_is_some(e, "DISPLAY")
    THEN [session |-> "X11", source |-> "DISPLAY"]
    ELSE LET r == env_var(e, "XDG_SESSION_TYPE")
             v == to_lowercase(trim(r.val))
         IN  IF r.ok /\ v = Str_wayland
             THEN [session |-> "Wayland", source |-> "XDG_SESSION_TYPE"]
             ELSE IF r.ok /\ v = Str_x11
             THEN [session |-> "X11", source |-> "XDG_SESSION_TYPE"]
             ELSE [session |-> "Unknown", source |-> "None"]

\* SessionType::detect
detect(e) ==
    LET r == env_var(e, "XDG_SESSION_TYPE")
        v == to_lowercase(trim(r.val))
    IN  IF r.ok /\ v = Str_wayland
        THEN [session |-> "Wayland", source |-> "XDG_SESSION_TYPE"]
        ELSE IF r.ok /\ v = Str_x11
        THEN [session |-> "X11", source |-> "XDG_SESSION_TYPE"]
        ELSE IF env_var_os_is_some(e, "WAYLAND_DISPLAY")
        THEN [session |-> "Wayland", source |-> "WAYLAND_DISPLAY"]
        ELSE IF env_var_os_is_some(e, "DISPLAY")
        THEN [session |-> "X11", source |-> "DISPLAY"]
        ELSE [session |-> "Unknown", source |-> "None"]

\* A plausible bug: the closure runs on every call (no memoization).
get_or_init_NoMemo(cell, e) ==
    [cell |-> detect(e).session, ran |-> TRUE]

\* OnceLock::get_or_init with the closure of get_session_type: the closure
\* (detect) runs only when the cell is empty.
get_or_init(cell, e) ==
    IF cell = "None"
    THEN [cell |-> detect(e).session, ran |-> TRUE]
    ELSE [cell |-> cell, ran |-> FALSE]

\* What get_session_type() does to the cell, with the record of the
\* evaluations of detect; g is the outcome of get_or_init.
SessionEffect(g) ==
    /\ SESSION_TYPE' = g.cell
    /\ detectRuns' = detectRuns + (IF g.ran THEN 1 ELSE 0)
    /\ firstSnapshot' = IF g.ran /\ detectRuns = 0 THEN env ELSE firstSnapshot
    /\ firstValue' = IF g.ran /\ detectRuns = 0 THEN g.cell ELSE firstValue

RetSession(s) == s
RetIsWayland(s) == (s = "Wayland")
RetIsX11(s) == (s = "X11")
RetUnit(s) == "()"

\* What function fn of session.rs returns when get_session_type() gave s.
ReturnOf(fn, s) ==
    CASE fn = "get_session_type" -> RetSession(s)
      [] fn = "is_wayland" -> RetIsWayland(s)
      [] fn = "is_x11" -> RetIsX11(s)
      [] fn = "init" -> RetUnit(s)

\* One call of get_session_type() made through function fn.
SessionCall(fn) ==
    LET g == get_or_init(SESSION_TYPE, env)
    IN  /\ sessionCalls < MaxCalls
        /\ SessionEffect(g)
        /\ sessionRet' = [fn |-> fn, val |-> ReturnOf(fn, g.cell)]
        /\ sessionCalls' = sessionCalls + 1
        /\ UNCHANGED <<configVars, env, onceRunning, threads, focusVars, pasteVars, gifVars>>

get_session_type == SessionCall("get_session_type")

is_wayland == SessionCall("is_wayland")

is_x11 == SessionCall("is_x11")

init == SessionCall("init")

\* The environment changes under the process (std::env::set_var / remove_var,
\* or a test harness).
SetEnv ==
    \E name \in EnvNames : \E v \in EnvDomain(name) :
        /\ env[name] # v
        /\ env' = [env EXCEPT ![name] = v]
        /\ UNCHANGED <<configVars, sessionVars, focusVars, pasteVars, gifVars>>

\* Threads that call get_session_type() concurrently.
Threads == 1..NumThreads

IdleThread == [pc |-> "idle", ret |-> "None", waited |-> FALSE]

\* A plausible bug: a check-then-initialise without mutual exclusion (a
\* caller that finds the cell empty always runs the closure itself).
once_call_Racy(cell, running) ==
    IF cell # "None" THEN "read" ELSE "run"

\* What a caller of OnceLock::get_or_init does on entry: it reads a filled
\* cell, runs the closure when the cell is empty and nobody is initialising
\* it, and otherwise blocks until the initialising thread has finished.
once_call(cell, running) ==
    CASE cell # "None" -> "read"
      [] running -> "wait"
      [] OTHER -> "run"

\* Thread t enters get_session_type().
ThreadCall(t) ==
    LET todo == once_call(SESSION_TYPE, onceRunning)
    IN  /\ threads[t].pc \in {"idle", "returned"}
        /\ threads' = [threads EXCEPT ![t] =
               CASE todo = "read" ->
                        [pc |-> "returned", ret |-> SESSION_TYPE,
                         waited |-> FALSE]
                 [] todo = "wait" ->
                        [pc |-> "blocked", ret |-> "None", waited |-> TRUE]
                 [] OTHER ->
                        [pc |-> "closure", ret |-> "None", waited |-> FALSE]]
        /\ onceRunning' = (onceRunning \/ todo = "run")
        /\ UNCHANGED <<configVars, env, SESSION_TYPE, sessionRet, sessionCalls, detectRuns,
                       firstSnapshot, firstValue, focusVars, pasteVars,
                       gifVars>>

\* Thread t, inside the closure, evaluates detect, fills the cell and
\* returns the value.
ThreadDetect(t) ==
    LET g == [cell |-> detect(env).session, ran |-> TRUE]
    IN  /\ threads[t].pc = "closure"
        /\ SessionEffect(g)
        /\ onceRunning' = FALSE
        /\ threads' = [threads EXCEPT ![t].pc = "returned", ![t].ret = g.cell]
        /\ UNCHANGED <<configVars, env, sessionRet, sessionCalls, focusVars, pasteVars,
                       gifVars>>

\* Thread t, blocked in get_or_init, is released once the cell is filled and
\* returns the cell's value.
ThreadWake(t) ==
    /\ threads[t].pc = "blocked"
    /\ SESSION_TYPE # "None"
    /\ threads' = [threads EXCEPT ![t].pc = "returned",
                                  ![t].ret = SESSION_TYPE]
    /\ UNCHANGED <<configVars, env, SESSION_TYPE, sessionRet, sessionCalls, detectRuns,
                   firstSnapshot, firstValue, onceRunning, focusVars,
                   pasteVars, gifVars>>

----------------------------------------------------------------------------
(* focus_manager.rs *)

\* Window ids; 0 is the X11 None window and the slot's "none saved" sentinel.
WindowIds == 1..MaxWindow

FOCUS_RESTORE_DELAY == 100

XCall(name) == [call |-> name]

SetInputFocusCall(w) ==
    [call |-> "set_input_focus", revert_to |-> "PARENT", window |-> w,
     time |-> "CURRENT_TIME"]

SleepCall(ms) == [call |-> "sleep", ms |-> ms]

\* get_x11_connection is x11rb::connect(None): the display is taken from
\* DISPLAY, so the connection can be made only when that variable is
\* readable. failAt is the first call of the function that fails.
ConnectionPossible(e, failAt) ==
    failAt = "connect" \/ env_var(e, "DISPLAY").ok

\* A plausible bug: a failed save clears the slot.
save_slot_ClearOnFailure(slot, failAt, focus) ==
    IF failAt = "none" THEN focus ELSE 0

\* The slot after save_focused_window: LAST_FOCUSED_WINDOW.store(reply.focus)
\* is reached only inside the three nested Ok arms.
save_slot(slot, failAt, focus) ==
    IF failAt = "none" THEN focus ELSE slot

\* save_focused_window: connect, GetInputFocus request, reply; on a reply the
\* focus window is stored into the slot; every failure is logged and ignored
\* (the function returns unit).
save_focused_window ==
    \E failAt \in {"none", "connect", "get_input_focus", "reply"} :
        /\ ConnectionPossible(env, failAt)
        /\ LAST_FOCUSED_WINDOW' = save_slot(LAST_FOCUSED_WINDOW, failAt, xFocus)
        /\ savedEver' = (savedEver \/ failAt = "none")
        /\ focusOp' =
               [op |-> "save", ret |-> "()",
                result |-> IF failAt = "none" THEN "stored" ELSE failAt,
                window |-> IF failAt = "none" THEN xFocus ELSE 0,
                calls |->
                    CASE failAt = "connect" -> <<XCall("connect")>>
                      [] OTHER -> <<XCall("connect"), XCall("get_input_focus")>>]
        /\ UNCHANGED <<configVars, env, sessionVars, pasteVars, gifVars, focusThreadVars, xFocus, xWindows>>

\* A plausible bug: the sentinel check is missing.
restore_calls_NoSentinel(window_id, failAt) ==
    CASE failAt = "connect" -> <<XCall("connect")>>
      [] failAt = "set_input_focus" ->
            <<XCall("connect"), SetInputFocusCall(window_id)>>
      [] failAt = "flush" ->
            <<XCall("connect"), SetInputFocusCall(window_id), XCall("flush")>>
      [] OTHER ->
            <<XCall("connect"), SetInputFocusCall(window_id), XCall("flush"),
              SleepCall(FOCUS_RESTORE_DELAY)>>

\* A plausible bug: success is reported as soon as the request is flushed,
\* without the settle sleep.
restore_calls_NoSleep(window_id, failAt) ==
    IF window_id = 0
    THEN <<>>
    ELSE CASE failAt = "connect" -> <<XCall("connect")>>
           [] failAt = "set_input_focus" ->
                 <<XCall("connect"), SetInputFocusCall(window_id)>>
           [] OTHER ->
                 <<XCall("connect"), SetInputFocusCall(window_id), XCall("flush")>>

\* The windowing-system calls restore_focused_window makes, in order, when
\* it has loaded window_id and the first failing call is failAt.
restore_calls(window_id, failAt) ==
    IF window_id = 0
    THEN <<>>
    ELSE CASE failAt = "connect" -> <<XCall("connect")>>
           [] failAt = "set_input_focus" ->
                 <<XCall("connect"), SetInputFocusCall(window_id)>>
           [] failAt = "flush" ->
                 <<XCall("connect"), SetInputFocusCall(window_id), XCall("flush")>>
           [] OTHER ->
                 <<XCall("connect"), SetInputFocusCall(window_id), XCall("flush"),
                   SleepCall(FOCUS_RESTORE_DELAY)>>

\* The Result restore_focused_window returns.
restore_result(window_id, failAt) ==
    IF window_id = 0
    THEN "Err(No previous window saved)"
    ELSE CASE failAt = "connect" -> "Err(X11 connect failed)"
           [] failAt = "set_input_focus" -> "Err(Set focus failed)"
           [] failAt = "flush" -> "Err(Flush failed)"
           [] OTHER -> "Ok"

\* A plausible bug: a successful restore consumes the saved handle.
restore_slot_Consume(slot, result) ==
    IF result = "Ok" THEN 0 ELSE slot

\* The slot after restore_focused_window: the function only loads it.
restore_slot(slot, result) == slot

\* restore_focused_window. The focus request reaches the server once it is
\* flushed; the server moves the focus when the window still exists (the
\* request is unchecked: an error for a destroyed window is discarded).
restore_focused_window ==
    \E failAt \in {"none", "connect", "set_input_focus", "flush"} :
        LET window_id == LAST_FOCUSED_WINDOW
            calls == restore_calls(window_id, failAt)
            result == restore_result(window_id, failAt)
        IN  /\ ConnectionPossible(env, failAt)
            /\ focusOp' = [op |-> "restore", ret |-> result, result |-> result,
                            window |-> window_id, calls |-> calls]
            /\ xFocus' = IF result = "Ok" /\ window_id \in xWindows
                         THEN window_id ELSE xFocus
            /\ LAST_FOCUSED_WINDOW' = restore_slot(LAST_FOCUSED_WINDOW, result)
            /\ UNCHANGED <<configVars, env, sessionVars, pasteVars, gifVars, focusThreadVars, xWindows,
                           savedEver>>

\* get_focused_window: diagnostic read of the current focus.
get_focused_window ==
    \E failAt \in {"none", "connect", "get_input_focus", "reply"} :
        /\ ConnectionPossible(env, failAt)
        /\ focusOp' =
               [op |-> "query",
                ret |-> IF failAt = "none" THEN "Some" ELSE "None",
                result |-> IF failAt = "none" THEN "Some" ELSE "None",
                window |-> IF failAt = "none" THEN xFocus ELSE 0,
                calls |->
                    CASE failAt = "connect" -> <<XCall("connect")>>
                      [] OTHER -> <<XCall("connect"), XCall("get_input_focus")>>]
        /\ UNCHANGED <<configVars, env, sessionVars, pasteVars, gifVars, focusThreadVars, LAST_FOCUSED_WINDOW, xFocus, xWindows,
                       savedEver>>

\* The user or the window manager moves the input focus.
XFocusChange ==
    \E w \in xWindows \cup {0} :
        /\ w # xFocus
        /\ xFocus' = w
        /\ UNCHANGED <<configVars, env, sessionVars, pasteVars, gifVars, focusThreadVars, LAST_FOCUSED_WINDOW, xWindows,
                       savedEver, focusOp>>

\* A window is destroyed; focus held by it reverts to None.
XDestroyWindow ==
    \E w \in xWindows :
        /\ xWindows' = xWindows \ {w}
        /\ xFocus' = IF xFocus = w THEN 0 ELSE xFocus
        /\ UNCHANGED <<configVars, env, sessionVars, pasteVars, gifVars, focusThreadVars, LAST_FOCUSED_WINDOW, savedEver, focusOp>>

\* A plausible bug: the slot is written as two halves, the low half first,
\* so that a concurrent load can see a mix of the old and the new handle.
store_writes_Torn(old, v) ==
    << (old \div 2) * 2 + (v % 2), v >>

\* The successive contents of the slot during
\* LAST_FOCUSED_WINDOW.store(v, Ordering::SeqCst): an AtomicU32 store is one
\* indivisible write.
store_writes(old, v) == << v >>

IdleFocusThread ==
    [op |-> "none", pc |-> "idle", val |-> 0, pending |-> <<>>,
     result |-> "none"]

\* Thread t runs save_focused_window up to the reply: on a reply it holds
\* reply.focus and is about to store it; a failure returns.
SaveRead(t) ==
    \E failAt \in {"none", "connect", "get_input_focus", "reply"} :
        /\ focusThreads[t].pc \in {"idle", "done"}
        /\ ConnectionPossible(env, failAt)
        /\ focusThreads' = [focusThreads EXCEPT ![t] =
               IF failAt = "none"
               THEN [op |-> "save", pc |-> "store", val |-> xFocus,
                     pending |-> <<>>, result |-> "none"]
               ELSE [op |-> "save", pc |-> "done", val |-> 0,
                     pending |-> <<>>, result |-> "()"]]
        /\ UNCHANGED <<configVars, env, sessionVars, pasteVars, gifVars,
                       LAST_FOCUSED_WINDOW, xFocus, xWindows, savedEver,
                       focusOp, storedValues>>

\* Thread t performs (the next write of) its store into the slot; the store
\* is complete with its last write.
SaveStore(t) ==
    LET r == focusThreads[t]
        ws == IF r.pending = <<>>
              THEN store_writes(LAST_FOCUSED_WINDOW, r.val)
              ELSE r.pending
        last == (Len(ws) = 1)
    IN  /\ r.pc = "store"
        /\ LAST_FOCUSED_WINDOW' = Head(ws)
        /\ focusThreads' = [focusThreads EXCEPT ![t] =
               IF last
               THEN [op |-> "save", pc |-> "done", val |-> 0,
                     pending |-> <<>>, result |-> "()"]
               ELSE [r EXCEPT !.pending = Tail(ws)]]
        /\ storedValues' = IF last THEN storedValues \cup {r.val}
                           ELSE storedValues
        /\ savedEver' = (savedEver \/ last)
        /\ UNCHANGED <<configVars, env, sessionVars, pasteVars, gifVars, xFocus, xWindows,
                       focusOp>>

\* Thread t enters restore_focused_window and loads the slot: the sentinel
\* returns the error at once, any other value is the handle it will target.
RestoreLoad(t) ==
    LET window_id == LAST_FOCUSED_WINDOW
    IN  /\ focusThreads[t].pc \in {"idle", "done"}
        /\ focusThreads' = [focusThreads EXCEPT ![t] =
               IF window_id = 0
               THEN [op |-> "restore", pc |-> "done", val |-> 0,
                     pending |-> <<>>,
                     result |-> restore_result(window_id, "none")]
               ELSE [op |-> "restore", pc |-> "focus", val |-> window_id,
                     pending |-> <<>>, result |-> "none"]]
        /\ UNCHANGED <<configVars, env, sessionVars, pasteVars, gifVars,
                       LAST_FOCUSED_WINDOW, xFocus, xWindows, savedEver,
                       focusOp, storedValues>>

\* Thread t runs the rest of restore_focused_window on the handle it
\* loaded (connect, set_input_focus on that handle, flush, sleep) and
\* returns.
RestoreFocus(t) ==
    \E failAt \in {"none", "connect", "set_input_focus", "flush"} :
        LET window_id == focusThreads[t].val
            result == restore_result(window_id, failAt)
        IN  /\ focusThreads[t].pc = "focus"
            /\ ConnectionPossible(env, failAt)
            /\ xFocus' = IF result = "Ok" /\ window_id \in xWindows
                         THEN window_id ELSE xFocus
            /\ focusThreads' = [focusThreads EXCEPT ![t] =
                   [op |-> "restore", pc |-> "done", val |-> 0,
                    pending |-> <<>>, result |-> result]]
            /\ UNCHANGED <<configVars, env, sessionVars, pasteVars, gifVars,
                           LAST_FOCUSED_WINDOW, xWindows, savedEver, focusOp,
                           storedValues>>


----------------------------------------------------------------------------
(* input_simulator.rs *)

\* The steps of each strategy in program order; a strategy run with
\* failAt = 0 completes them all, otherwise it returns Err at step failAt,
\* having completed the steps before it.
XtestSteps ==
    <<"connect", "xtest_get_version", "version_reply", "sync",
      "fake_input(KeyPress,Control_L)", "flush", "sleep(10)",
      "fake_input(KeyPress,V)", "flush", "sleep(10)",
      "fake_input(KeyRelease,V)", "flush", "sleep(5)",
      "fake_input(KeyRelease,Control_L)", "flush", "sync">>

XdotoolSteps ==
    <<"spawn(xdotool getwindowfocus)", "exit_status(getwindowfocus)",
      "spawn(xdotool key --window ctrl+v)", "exit_status(key)">>

EnigoSteps ==
    <<"Enigo::new", "key(Control,Press)", "key(v,Click)", "key(Control,Release)">>

UinputSteps ==
    <<"open(/dev/uinput)", "ioctl(UI_SET_EVBIT,EV_KEY)",
      "ioctl(UI_SET_KEYBIT,KEY_LEFTCTRL)", "ioctl(UI_SET_KEYBIT,KEY_V)",
      "ioctl(UI_DEV_SETUP)", "ioctl(UI_DEV_CREATE)", "sleep(50)",
      "write(EV_KEY,KEY_LEFTCTRL,1)", "write(EV_SYN,SYN_REPORT,0)", "flush",
      "sleep(10)",
      "write(EV_KEY,KEY_V,1)", "write(EV_SYN,SYN_REPORT,0)", "flush",
      "sleep(10)",
      "write(EV_KEY,KEY_V,0)", "write(EV_SYN,SYN_REPORT,0)", "flush",
      "sleep(10)",
      "write(EV_KEY,KEY_LEFTCTRL,0)", "write(EV_SYN,SYN_REPORT,0)", "flush",
      "sleep(50)", "ioctl(UI_DEV_DESTROY)">>

\* Steps whose result the code does not test, or that cannot fail: the
\* sleeps, File::flush (a no-op on a file) and the ignored UI_DEV_DESTROY.
Infallible(steps, i) ==
    \/ steps[i] \in {"sleep(5)", "sleep(10)", "sleep(50)", "ioctl(UI_DEV_DESTROY)"}
    \/ (steps = UinputSteps /\ steps[i] = "flush")

FailPoints(steps) == {0} \cup {i \in 1..Len(steps) : ~Infallible(steps, i)}

\* A plausible bug: the result of a failing step is ignored and the strategy
\* reports success with the steps it got through.
RunStrategy_IgnoresError(name, steps, failAt) ==
    [name |-> name,
     ok |-> TRUE,
     done |-> IF failAt = 0 THEN steps ELSE SubSeq(steps, 1, failAt - 1),
     failed |-> IF failAt = 0 THEN "" ELSE steps[failAt]]

\* One run of a strategy: the steps it completed and the step that failed.
RunStrategy(name, steps, failAt) ==
    [name |-> name,
     ok |-> (failAt = 0),
     done |-> IF failAt = 0 THEN steps ELSE SubSeq(steps, 1, failAt - 1),
     failed |-> IF failAt = 0 THEN "" ELSE steps[failAt]]

NoKeyEvent == [key |-> "none", dir |-> "none"]

\* The synthetic key event a completed step hands to the windowing system
\* or the kernel: an XTest fake_input request, an EV_KEY write, an enigo
\* key call (Click is a press and a release), and the combination xdotool
\* has sent when `xdotool key` exited with success.
KeyEventOf(step) ==
    CASE step \in {"fake_input(KeyPress,Control_L)",
                   "write(EV_KEY,KEY_LEFTCTRL,1)", "key(Control,Press)"} ->
             [key |-> "Control", dir |-> "press"]
      [] step \in {"fake_input(KeyPress,V)", "write(EV_KEY,KEY_V,1)"} ->
             [key |-> "V", dir |-> "press"]
      [] step \in {"fake_input(KeyRelease,V)", "write(EV_KEY,KEY_V,0)"} ->
             [key |-> "V", dir |-> "release"]
      [] step \in {"fake_input(KeyRelease,Control_L)",
                   "write(EV_KEY,KEY_LEFTCTRL,0)", "key(Control,Release)"} ->
             [key |-> "Control", dir |-> "release"]
      [] step = "key(v,Click)" -> [key |-> "V", dir |-> "click"]
      [] step = "exit_status(key)" -> [key |-> "Control+V", dir |-> "click"]
      [] OTHER -> NoKeyEvent

\* The step that delivers a key event: conn.flush() after an XTest request,
\* the EV_SYN/SYN_REPORT write after an EV_KEY write.
DeliveryStep(name) ==
    IF name = "xtest" THEN "flush" ELSE "write(EV_SYN,SYN_REPORT,0)"

\* The steps a strategy completes before its first key event: the version
\* reply and the sync (XTest), UI_DEV_CREATE and the 50 ms sleep (uinput).
Preparation(name) ==
    IF name = "xtest" THEN <<"version_reply", "sync">>
    ELSE <<"ioctl(UI_DEV_CREATE)", "sleep(50)">>

AllFailed == "Err(All paste methods failed)"

\* A plausible bug: the X11 strategies are tried whenever the session is not
\* Wayland.
FirstStrategy_NotWayland(session) ==
    IF session # "Wayland" THEN "xtest" ELSE "enigo"

\* The strategy simulate_paste_keystroke starts with: the X11 block is
\* entered only when session::is_x11().
FirstStrategy(session) ==
    IF session = "X11" THEN "xtest" ELSE "enigo"

\* A plausible bug: xdotool is left out of the chain.
AfterFailure_SkipXdotool(name) ==
    CASE name = "xtest" -> "enigo"
      [] name = "xdotool" -> "enigo"
      [] name = "enigo" -> "uinput"
      [] name = "uinput" -> "exhausted"

\* A plausible bug: the error of the cross-session library ends the chain
\* (propagated with `?`) instead of falling through to the virtual device.
AfterFailure_Propagate(name) ==
    CASE name = "xtest" -> "xdotool"
      [] name = "xdotool" -> "enigo"
      [] name = "enigo" -> "exhausted"
      [] name = "uinput" -> "exhausted"

\* A plausible bug: a failed virtual-device attempt sends the chain back to
\* the cross-session library.
AfterFailure_Retry(name) ==
    CASE name = "xtest" -> "xdotool"
      [] name = "xdotool" -> "enigo"
      [] name = "enigo" -> "uinput"
      [] name = "uinput" -> "enigo"

\* Where simulate_paste_keystroke goes when strategy name returned Err: the
\* next `if let Ok(()) = ...`, or the final Err.
AfterFailure(name) ==
    CASE name = "xtest" -> "xdotool"
      [] name = "xdotool" -> "enigo"
      [] name = "enigo" -> "uinput"
      [] name = "uinput" -> "exhausted"

\* simulate_paste_keystroke, entry: the initial sleep, then session::is_x11()
\* on the cached session type selects the first strategy.
simulate_paste_keystroke ==
    LET g == get_or_init(SESSION_TYPE, env)
    IN  /\ pasteOp.pc \in {"idle", "returned"}
        /\ SessionEffect(g)
        /\ pasteOp' = [pc |-> FirstStrategy(g.cell), session |-> g.cell,
                       result |-> "pending", attempts |-> <<>>,
                       blocked |-> "no"]
        /\ UNCHANGED <<configVars, env, sessionRet, sessionCalls, onceRunning, threads,
                       focusVars, gifVars>>

\* simulate_paste_keystroke calls strategy name and acts on its result:
\* Ok returns Ok at once, Err falls through.
StrategyCall(name, steps) ==
    \E failAt \in FailPoints(steps) :
        LET r == RunStrategy(name, steps, failAt)
            next == AfterFailure(name)
        IN  /\ pasteOp.pc = name
            /\ pasteOp.blocked = "no"
            /\ pasteOp' =
                   [pasteOp EXCEPT
                       !.attempts = Append(@, r),
                       !.pc = IF r.ok \/ next = "exhausted" THEN "returned" ELSE next,
                       !.result = IF r.ok THEN "Ok"
                                  ELSE IF next = "exhausted" THEN AllFailed
                                  ELSE @]
            /\ UNCHANGED <<configVars, env, sessionVars, focusVars, gifVars>>

simulate_paste_xtest == StrategyCall("xtest", XtestSteps)

simulate_paste_xdotool == StrategyCall("xdotool", XdotoolSteps)

\* The steps of simulate_paste_xdotool that wait for the xdotool process to
\* exit: Command::output() has no timeout.
XdotoolWaits == {"exit_status(getwindowfocus)", "exit_status(key)"}

\* xdotool is spawned and never exits: the thread inside
\* simulate_paste_xdotool stays in Command::output().
xdotool_never_exits ==
    \E w \in XdotoolWaits :
        /\ pasteOp.pc = "xdotool"
        /\ pasteOp.blocked = "no"
        /\ pasteOp' = [pasteOp EXCEPT !.blocked = w]
        /\ UNCHANGED <<configVars, env, sessionVars, focusVars, gifVars>>

simulate_paste_enigo == StrategyCall("enigo", EnigoSteps)

simulate_paste_uinput == StrategyCall("uinput", UinputSteps)

----------------------------------------------------------------------------
(* gif_manager.rs *)

Urls == 1..NumUrls

\* The 64-bit DefaultHasher value of a URL, in a hash space small enough for
\* two of the model's URLs to share a value.
UrlHash(url) == url % NumHashes

Hashes == {UrlHash(u) : u \in Urls}

\* What the server sends for a URL: the body may differ between requests.
Contents == {"bodyA", "bodyB"}

FileStates == {"absent", "truncated"} \cup Contents

NoFetch == [url |-> 0, ok |-> FALSE, path |-> -1, net |-> 0,
            created |-> FALSE, failed |-> "none"]

\* The steps of download_gif_to_file that can fail, in program order.
DownloadSteps ==
    <<"client_build", "send", "status", "bytes", "cache_dir", "create", "write">>

DownloadFailPoints == 0..Len(DownloadSteps)

\* A plausible bug: the cache file is created before the request is sent,
\* so that a failed request leaves an empty file behind.
download_gif_to_file_CreateFirst(url, failAt, body, fs) ==
    LET path == UrlHash(url)
    IN  [ok |-> (failAt = 0),
         path |-> path,
         net |-> IF failAt = 1 THEN 0 ELSE 1,
         created |-> (failAt # 1),
         failed |-> IF failAt = 0 THEN "none" ELSE DownloadSteps[failAt],
         files |-> IF failAt = 0 THEN [fs EXCEPT ![path] = body]
                   ELSE IF failAt = 1 THEN fs
                   ELSE [fs EXCEPT ![path] = "truncated"]]

\* download_gif_to_file(url) failing at step failAt (0: no failure) while the
\* server sends body: the request is sent whenever the client was built, the
\* file <hash>.gif is created (File::create: truncated when it exists) once
\* the response was read, and holds the body once written.
download_gif_to_file(url, failAt, body, fs) ==
    LET path == UrlHash(url)
    IN  [ok |-> (failAt = 0),
         path |-> path,
         net |-> IF failAt = 1 THEN 0 ELSE 1,
         created |-> (failAt = 0 \/ failAt = 7),
         failed |-> IF failAt = 0 THEN "none" ELSE DownloadSteps[failAt],
         files |-> IF failAt = 0 THEN [fs EXCEPT ![path] = body]
                   ELSE IF failAt = 7 THEN [fs EXCEPT ![path] = "truncated"]
                   ELSE fs]

Ok_FileUri(path) == [kind |-> "Ok", type |-> "file_uri", id |-> path]
Ok_Url(url) == [kind |-> "Ok", type |-> "url", id |-> url]
Err_Clipboard == [kind |-> "Err", type |-> "clipboard", id |-> 0]
Pending == [kind |-> "pending", type |-> "none", id |-> 0]

Nothing == [by |-> "none", type |-> "none", id |-> 0]
UriList(helper, path) == [by |-> helper, type |-> "text/uri-list", id |-> path]
PlainText(url) == [by |-> "arboard", type |-> "text", id |-> url]

WaylandOutcomes ==
    {"spawn_failed", "write_failed", "try_wait_failed", "exited_nonzero",
     "exited_zero", "running"}

\* Milliseconds copy_gif_to_clipboard_wayland sleeps before polling wl-copy.
WlCopySettleMs == 150

\* A plausible bug: the caller waits for the helper to exit whatever the
\* poll found.
WlCopySteps_WaitForExit(path, o) ==
    LET spawn == [call |-> "spawn", helper |-> "wl-copy"]
        write == [call |-> "write_stdin", payload |-> UriList("wl-copy", path)]
    IN  CASE o = "spawn_failed" -> <<spawn>>
          [] o = "write_failed" -> <<spawn, write>>
          [] OTHER -> <<spawn, write, XCall("close_stdin"),
                        SleepCall(WlCopySettleMs), XCall("try_wait"),
                        XCall("wait_with_output")>>

\* The calls copy_gif_to_clipboard_wayland makes on the helper process, in
\* order, when the helper's outcome is o. The output is collected
\* (wait_with_output) only from a helper that try_wait found exited.
WlCopySteps(path, o) ==
    LET spawn == [call |-> "spawn", helper |-> "wl-copy"]
        write == [call |-> "write_stdin", payload |-> UriList("wl-copy", path)]
        upToPoll == <<spawn, write, XCall("close_stdin"),
                      SleepCall(WlCopySettleMs), XCall("try_wait")>>
    IN  CASE o = "spawn_failed" -> <<spawn>>
          [] o = "write_failed" -> <<spawn, write>>
          [] o = "exited_nonzero" -> Append(upToPoll, XCall("wait_with_output"))
          [] OTHER -> upToPoll

\* copy_gif_to_clipboard_wayland: both environment variables are read with
\* env::var, wl-copy is spawned, the URI is written to its stdin, and after
\* the 150 ms sleep try_wait decides: exited non-zero is an error, exited
\* zero or still running is success.
copy_gif_to_clipboard_wayland(e, path, o) ==
    IF ~env_var(e, "WAYLAND_DISPLAY").ok
    THEN [helper |-> "wl-copy", ok |-> FALSE, cause |-> "WAYLAND_DISPLAY not set",
          spawned |-> FALSE, published |-> Nothing, steps |-> <<>>]
    ELSE IF ~env_var(e, "XDG_RUNTIME_DIR").ok
    THEN [helper |-> "wl-copy", ok |-> FALSE, cause |-> "XDG_RUNTIME_DIR not set",
          spawned |-> FALSE, published |-> Nothing, steps |-> <<>>]
    ELSE [helper |-> "wl-copy",
          ok |-> (o \in {"exited_zero", "running"}),
          cause |-> o,
          spawned |-> (o # "spawn_failed"),
          published |-> IF o \in {"exited_zero", "running"}
                        THEN UriList("wl-copy", path) ELSE Nothing,
          steps |-> WlCopySteps(path, o)]

X11Outcomes == {"spawn_failed", "write_failed", "serving", "exited_nonzero"}

\* The calls copy_gif_to_clipboard_x11 makes on the helper process: after
\* the write the child is moved into a detached thread.
XclipSteps(path, o) ==
    LET spawn == [call |-> "spawn", helper |-> "xclip"]
        write == [call |-> "write_stdin", payload |-> UriList("xclip", path)]
    IN  CASE o = "spawn_failed" -> <<spawn>>
          [] o = "write_failed" -> <<spawn, write>>
          [] OTHER -> <<spawn, write, XCall("close_stdin"), XCall("detach")>>

\* copy_gif_to_clipboard_x11: DISPLAY is read with env::var, xclip is
\* spawned, the URI is written to its stdin, and the child is handed to a
\* detached thread that waits for it and drops the exit status: Ok is
\* returned whether xclip goes on to serve the selection or exits non-zero.
copy_gif_to_clipboard_x11(e, path, o) ==
    IF ~env_var(e, "DISPLAY").ok
    THEN [helper |-> "xclip", ok |-> FALSE, cause |-> "DISPLAY not set",
          spawned |-> FALSE, published |-> Nothing, steps |-> <<>>]
    ELSE [helper |-> "xclip",
          ok |-> (o \in {"serving", "exited_nonzero"}),
          cause |-> o,
          spawned |-> (o # "spawn_failed"),
          published |-> IF o = "serving" THEN UriList("xclip", path) ELSE Nothing,
          steps |-> XclipSteps(path, o)]

UrlOutcomes == {"open_failed", "set_text_failed", "ok"}

\* copy_url_to_clipboard through the standard clipboard API (arboard)
copy_url_to_clipboard(url, o) ==
    [ok |-> (o = "ok"), cause |-> o,
     published |-> IF o = "ok" THEN PlainText(url) ELSE Nothing]

\* A plausible bug: wl-copy is tried first in every session type.
FirstHelper_WlCopyFirst(wayland) == "wl-copy"

\* A plausible bug: the session type is ignored and xclip is tried first.
FirstHelper_AlwaysXclip(wayland) == "xclip"

\* set_gif_clipboard_from_file: the helper tried first
FirstHelper(wayland) == IF wayland THEN "wl-copy" ELSE "xclip"

\* Where the publish operation goes when a helper returned Err: from wl-copy
\* to xclip (set_gif_clipboard_from_file), from xclip to the URL fallback.
AfterHelperFailure(helper) ==
    IF helper = "wl-copy" THEN "xclip" ELSE "fallback"

\* A plausible bug: the error of the fallback is dropped and the URL is
\* reported as published.
FallbackResult_ErrorDropped(url, ok) == Ok_Url(url)

\* paste_gif_to_clipboard_with_uri, Err arm: copy_url_to_clipboard(url)?
\* and then Ok(Some(url)).
FallbackResult(url, ok) == IF ok THEN Ok_Url(url) ELSE Err_Clipboard

\* paste_gif_to_clipboard_with_uri, entry: session::is_wayland() on the
\* cached session type, then the download starts.
paste_gif_to_clipboard_with_uri ==
    \E url \in Urls :
        LET g == get_or_init(SESSION_TYPE, env)
        IN  /\ gifOp.pc \in {"idle", "returned"}
            /\ SessionEffect(g)
            /\ gifOp' = [pc |-> "download", url |-> url,
                         is_wayland |-> (g.cell = "Wayland"),
                         downloaded |-> FALSE, attempts |-> <<>>,
                         fallback |-> "none", result |-> Pending,
                         published |-> Nothing]
            /\ UNCHANGED <<configVars, env, sessionRet, sessionCalls, onceRunning,
                           threads, focusVars, pasteVars, files, lastFetch>>

\* The call of download_gif_to_file inside the publish operation.
DownloadStep ==
    \E failAt \in DownloadFailPoints, body \in Contents :
        LET d == download_gif_to_file(gifOp.url, failAt, body, files)
        IN  /\ gifOp.pc = "download"
            /\ files' = d.files
            /\ lastFetch' = [url |-> gifOp.url, ok |-> d.ok, path |-> d.path,
                             net |-> d.net, created |-> d.created,
                             failed |-> d.failed]
            /\ gifOp' = [gifOp EXCEPT
                            !.downloaded = d.ok,
                            !.pc = IF d.ok THEN FirstHelper(gifOp.is_wayland)
                                   ELSE "fallback"]
            /\ UNCHANGED <<configVars, env, sessionVars, focusVars, pasteVars>>

\* A helper returned r: Ok returns the file URI, Err moves on.
HelperStep(r) ==
    /\ gifOp' = [gifOp EXCEPT
                    !.attempts = Append(@, r),
                    !.published = IF r.published # Nothing THEN r.published ELSE @,
                    !.pc = IF r.ok THEN "returned" ELSE AfterHelperFailure(r.helper),
                    !.result = IF r.ok THEN Ok_FileUri(UrlHash(gifOp.url)) ELSE @]
    /\ UNCHANGED <<configVars, env, sessionVars, focusVars, pasteVars, files, lastFetch>>

WaylandStep ==
    \E o \in WaylandOutcomes :
        /\ gifOp.pc = "wl-copy"
        /\ HelperStep(copy_gif_to_clipboard_wayland(env, UrlHash(gifOp.url), o))

X11Step ==
    \E o \in X11Outcomes :
        /\ gifOp.pc = "xclip"
        /\ HelperStep(copy_gif_to_clipboard_x11(env, UrlHash(gifOp.url), o))

\* The URL fallback of the publish operation.
FallbackStep ==
    \E o \in UrlOutcomes :
        LET r == copy_url_to_clipboard(gifOp.url, o)
        IN  /\ gifOp.pc = "fallback"
            /\ gifOp' = [gifOp EXCEPT
                            !.fallback = o,
                            !.published = IF r.ok THEN r.published ELSE @,
                            !.pc = "returned",
                            !.result = FallbackResult(gifOp.url, r.ok)]
            /\ UNCHANGED <<configVars, env, sessionVars, focusVars, pasteVars, files,
                           lastFetch>>

----------------------------------------------------------------------------
(* config_manager.rs *)

\* WindowState values: an optional monitor name and a position.
Monitors == {"None", "eDP-1"}

WindowStates ==
    [monitor_name : Monitors, x : 0..MaxCoord, y : 0..MaxCoord]

\* WindowState::default()
DefaultWindowState == [monitor_name |-> "None", x |-> 0, y |-> 0]

\* The data directory on disk: missing, without window_state.json, with a
\* file cut short by a failed write, or with the file holding a state.
Disk(kind) == [kind |-> kind, content |-> DefaultWindowState]
FileWith(st) == [kind |-> "file", content |-> st]

DiskStates ==
    {Disk(k) : k \in {"no_dir", "no_file", "truncated"}}
        \cup {FileWith(st) : st \in WindowStates}

\* What save_to_disk meets: the directory cannot be created, the write
\* fails before or after the file was truncated, or everything succeeds.
SaveOutcomes ==
    {"create_dir_failed", "write_failed", "write_failed_truncated", "ok"}

\* save_to_disk: create_dir_all when the directory is missing, then
\* fs::write of the serialised state.
save_to_disk(st, d, o) ==
    IF d.kind = "no_dir" /\ o = "create_dir_failed"
    THEN [ok |-> FALSE, disk |-> d]
    ELSE LET dir == IF d.kind = "no_dir" THEN Disk("no_file") ELSE d
         IN  CASE o = "ok" -> [ok |-> TRUE, disk |-> FileWith(st)]
               [] o = "write_failed_truncated" ->
                      [ok |-> FALSE, disk |-> Disk("truncated")]
               [] OTHER -> [ok |-> FALSE, disk |-> dir]

\* load: a missing file is Ok and leaves the default state; a file that
\* cannot be read or parsed is an error, which new() ignores.
load(st, d) == IF d.kind = "file" THEN d.content ELSE st

\* ConfigManager::new (the process starts, or starts again).
ConfigManager_new ==
    /\ config' = [state |-> load(DefaultWindowState, disk), dirty |-> FALSE]
    /\ configOp' = [op |-> "new", attempted |-> FALSE, ok |-> TRUE]
    /\ UNCHANGED <<env, sessionVars, focusVars, pasteVars, gifVars, disk>>

\* update_state: the three fields are assigned and dirty is set.
update_state ==
    \E st \in WindowStates :
        /\ config' = [state |-> st, dirty |-> TRUE]
        /\ configOp' = [op |-> "update_state", attempted |-> FALSE, ok |-> TRUE]
        /\ UNCHANGED <<env, sessionVars, focusVars, pasteVars, gifVars, disk>>

\* A plausible bug: dirty is cleared whether or not the write succeeded.
sync_ClearsAlways(c, d, o) ==
    IF c.dirty
    THEN LET w == save_to_disk(c.state, d, o)
         IN  [config |-> [c EXCEPT !.dirty = FALSE], disk |-> w.disk,
              attempted |-> TRUE, ok |-> w.ok]
    ELSE [config |-> c, disk |-> d, attempted |-> FALSE, ok |-> TRUE]

\* sync_to_disk on manager c with the disk in state d: save_to_disk runs
\* only when dirty, and dirty is cleared only when it returned Ok.
sync(c, d, o) ==
    IF c.dirty
    THEN LET w == save_to_disk(c.state, d, o)
         IN  [config |-> [c EXCEPT !.dirty = ~w.ok], disk |-> w.disk,
              attempted |-> TRUE, ok |-> w.ok]
    ELSE [config |-> c, disk |-> d, attempted |-> FALSE, ok |-> TRUE]

sync_to_disk ==
    \E o \in SaveOutcomes :
        LET r == sync(config, disk, o)
        IN  /\ config.dirty \/ o = "ok"
            /\ config' = r.config
            /\ disk' = r.disk
            /\ configOp' = [op |-> "sync_to_disk", attempted |-> r.attempted,
                             ok |-> r.ok]
            /\ UNCHANGED <<env, sessionVars, focusVars, pasteVars, gifVars>>

----------------------------------------------------------------------------
(* Specifications *)

NoEnv == [n \in EnvNames |-> Unset]

Envs == {e \in [EnvNames -> UNION {EnvDomain(n) : n \in EnvNames}] :
            \A n \in EnvNames : e[n] \in EnvDomain(n)}

\* Environments of a desktop session (the runtime directory is set) with a
\* well-formed or absent session-type signal.
PasteEnvs ==
    {e \in Envs :
        /\ e["XDG_SESSION_TYPE"] \in {Unset, Value(Str_wayland), Value(Str_x11)}
        /\ e["XDG_RUNTIME_DIR"].set}

\* The state after process start, in an environment of E with the X server's
\* focus on a window of F.
InitIn(E, F) ==
    /\ env \in E
    /\ SESSION_TYPE = "None"
    /\ sessionRet = [fn |-> "none", val |-> "none"]
    /\ sessionCalls = 0
    /\ detectRuns = 0
    /\ firstSnapshot = NoEnv
    /\ firstValue = "None"
    /\ onceRunning = FALSE
    /\ threads = [t \in Threads |-> IdleThread]
    /\ LAST_FOCUSED_WINDOW = 0
    /\ xWindows = WindowIds
    /\ xFocus \in F
    /\ savedEver = FALSE
    /\ focusOp = [op |-> "none", ret |-> "none", result |-> "none",
                  window |-> 0, calls |-> <<>>]
    /\ focusThreads = [t \in Threads |-> IdleFocusThread]
    /\ storedValues = {}
    /\ pasteOp = [pc |-> "idle", session |-> "None", result |-> "none",
                  attempts |-> <<>>, blocked |-> "no"]
    /\ files = [h \in Hashes |-> "absent"]
    /\ lastFetch = NoFetch
    /\ gifOp = [pc |-> "idle", url |-> 0, is_wayland |-> FALSE,
                downloaded |-> FALSE, attempts |-> <<>>, fallback |-> "none",
                result |-> Pending, published |-> Nothing]
    /\ disk = Disk("no_dir")
    /\ config = [state |-> DefaultWindowState, dirty |-> FALSE]
    /\ configOp = [op |-> "new", attempted |-> FALSE, ok |-> TRUE]

Init == InitIn(Envs, {0})

NextSession ==
    \/ get_session_type
    \/ is_wayland
    \/ is_x11
    \/ init
    \/ SetEnv

SpecSession == Init /\ [][NextSession]_vars

\* Environments in which only the session-type signal and DISPLAY vary.
ThreadEnvs ==
    {e \in Envs :
        /\ e["XDG_SESSION_TYPE"] \in {Unset, Value(Str_wayland), Value(Str_x11)}
        /\ e["WAYLAND_DISPLAY"] = Unset
        /\ e["XDG_RUNTIME_DIR"] = Unset}

InitThreads == InitIn(ThreadEnvs, {0})

SetEnvThreads == SetEnv /\ env' \in ThreadEnvs

NextThreads ==
    \/ \E t \in Threads : ThreadCall(t)
    \/ \E t \in Threads : ThreadDetect(t)
    \/ \E t \in Threads : ThreadWake(t)
    \/ SetEnvThreads

SpecThreads == InitThreads /\ [][NextThreads]_vars

\* Desktop sessions with a well-formed or absent session-type signal; the
\* X display is present (an X server or XWayland) or absent.
FocusEnvs ==
    {e \in PasteEnvs : e["WAYLAND_DISPLAY"] \in {Unset, Value(Str_wayland0)}}

InitFocus == InitIn(FocusEnvs, WindowIds \cup {0})

NextFocus ==
    \/ save_focused_window
    \/ restore_focused_window
    \/ get_focused_window
    \/ XFocusChange
    \/ XDestroyWindow

SpecFocus == InitFocus /\ [][NextFocus]_vars

\* An X11 session with the display reachable.
FocusThreadEnvs ==
    {e \in FocusEnvs :
        /\ e["XDG_SESSION_TYPE"] = Value(Str_x11)
        /\ e["WAYLAND_DISPLAY"] = Unset
        /\ e["DISPLAY"].set}

InitFocusThreads == InitIn(FocusThreadEnvs, WindowIds \cup {0})

NextFocusThreads ==
    \/ \E t \in Threads : SaveRead(t)
    \/ \E t \in Threads : SaveStore(t)
    \/ \E t \in Threads : RestoreLoad(t)
    \/ \E t \in Threads : RestoreFocus(t)
    \/ XFocusChange

SpecFocusThreads == InitFocusThreads /\ [][NextFocusThreads]_vars

InitPaste == InitIn(PasteEnvs, {0})

NextPaste ==
    \/ simulate_paste_keystroke
    \/ simulate_paste_xtest
    \/ simulate_paste_xdotool
    \/ xdotool_never_exits
    \/ simulate_paste_enigo
    \/ simulate_paste_uinput

SpecPaste == InitPaste /\ [][NextPaste]_vars

\* Environments with a well-formed or absent session-type signal and each
\* of the variables the helpers read either set or unset.
GifEnvs ==
    {e \in Envs :
        /\ e["XDG_SESSION_TYPE"] \in {Unset, Value(Str_wayland), Value(Str_x11)}
        /\ e["WAYLAND_DISPLAY"] \in {Unset, Value(Str_wayland0)}}

InitGif == InitIn(GifEnvs, {0})

NextGif ==
    \/ paste_gif_to_clipboard_with_uri
    \/ DownloadStep
    \/ WaylandStep
    \/ X11Step
    \/ FallbackStep

SpecGif == InitGif /\ [][NextGif]_vars

InitConfig == InitIn({NoEnv}, {0})

NextConfig ==
    \/ ConfigManager_new
    \/ update_state
    \/ sync_to_disk

SpecConfig == InitConfig /\ [][NextConfig]_vars

----------------------------------------------------------------------------
(* Properties: session detection *)

\* The value a caller of fn must see when the first evaluation gave s.
ExpectedReturn(fn, s) ==
    CASE fn = "get_session_type" -> s
      [] fn = "is_wayland" -> (s = "Wayland")
      [] fn = "is_x11" -> (s = "X11")
      [] fn = "init" -> "()"

\* C1: whatever the environment has become, every call of get_session_type,
\* is_wayland, is_x11 or init returns the value of the first evaluation, and
\* detect (the only reader of the environment) has run exactly once.
C1_FirstEvaluationIsReturned ==
    sessionCalls > 0 =>
        /\ detectRuns = 1
        /\ SESSION_TYPE = firstValue
        /\ sessionRet.val = ExpectedReturn(sessionRet.fn, firstValue)

\* A later call made after the environment changed to one that a fresh
\* detection would classify differently.
C1_Witness ==
    /\ sessionCalls >= 2
    /\ sessionRet.fn = "get_session_type"
    /\ env # firstSnapshot
    /\ detect(env).session # firstValue
    /\ sessionRet.val = firstValue

\* s equals word w ignoring case.
EqIgnoreCase(s, w) ==
    /\ Len(s) = Len(w)
    /\ \A i \in 1..Len(s) : LowerChar(s[i]) = LowerChar(w[i])

\* s is w ignoring case, possibly between leading and trailing whitespace.
EqIgnoreCaseAndPadding(s, w) ==
    \E i, j \in 0..Len(s) :
        /\ i + Len(w) + j = Len(s)
        /\ \A k \in 1..i : s[k] \in Whitespace
        /\ \A k \in (Len(s) - j + 1)..Len(s) : s[k] \in Whitespace
        /\ EqIgnoreCase(SubSeq(s, i + 1, i + Len(w)), w)

\* The session-type signal s names word w: literally, or up to padding.
Recognised(s, w, padded) ==
    IF padded THEN EqIgnoreCaseAndPadding(s, w) ELSE EqIgnoreCase(s, w)

\* The decision order of the specification for environment e.
DecisionOrder(e, padded) ==
    LET x == e["XDG_SESSION_TYPE"]
        readable == x.set /\ IsUnicode(x.val)
    IN  IF readable /\ Recognised(x.val, Str_wayland, padded) THEN "Wayland"
        ELSE IF readable /\ Recognised(x.val, Str_x11, padded) THEN "X11"
        ELSE IF e["WAYLAND_DISPLAY"].set THEN "Wayland"
        ELSE IF e["DISPLAY"].set THEN "X11"
        ELSE "Unknown"

\* C2 as stated: XDG_SESSION_TYPE is recognised when it equals "wayland" or
\* "x11" ignoring case, and any other value falls through to the display
\* signals.
C2_OrderAsStated ==
    detectRuns > 0 => firstValue = DecisionOrder(firstSnapshot, FALSE)

\* C2 amended: XDG_SESSION_TYPE is recognised when, with surrounding
\* whitespace removed, it equals "wayland" or "x11" ignoring case; then come
\* WAYLAND_DISPLAY (present, even empty), DISPLAY, and Unknown; detection
\* always yields one of the three variants.
C2_OrderAmended ==
    detectRuns > 0 =>
        /\ firstValue \in SessionTypes
        /\ firstValue = DecisionOrder(firstSnapshot, TRUE)

\* A recognised, padded XDG_SESSION_TYPE wins over a present WAYLAND_DISPLAY.
C2_Witness ==
    /\ detectRuns > 0
    /\ firstSnapshot["XDG_SESSION_TYPE"] = Value(<<" ", "X", "1", "1", " ">>)
    /\ firstSnapshot["WAYLAND_DISPLAY"] = Value(<<>>)
    /\ firstValue = "X11"

----------------------------------------------------------------------------
(* Properties: focus *)

\* C3: a restore made while no save has ever stored a handle returns the
\* "no previous window" error and makes no windowing-system call at all.
C3_RestoreWithoutSave ==
    (focusOp.op = "restore" /\ ~savedEver) =>
        /\ LAST_FOCUSED_WINDOW = 0
        /\ focusOp.result = "Err(No previous window saved)"
        /\ focusOp.calls = <<>>

\* Such a restore, made while a window holds the input focus.
C3_Witness ==
    /\ focusOp.op = "restore"
    /\ ~savedEver
    /\ xFocus # 0
    /\ focusOp.result = "Err(No previous window saved)"

----------------------------------------------------------------------------
(* Properties: keystroke chain *)

StrategyNames(a) == [i \in 1..Len(a) |-> a[i].name]

IsPrefix(p, q) == Len(p) <= Len(q) /\ SubSeq(q, 1, Len(p)) = p

X11Chain == <<"xtest", "xdotool", "enigo", "uinput">>
FallbackChain == <<"enigo", "uinput">>
ChainFor(session) == IF session = "X11" THEN X11Chain ELSE FallbackChain

\* C4: in an X11 session the strategies run in the order XTest, xdotool,
\* enigo, uinput; one runs only after all earlier ones failed, and none runs
\* after a success.
C4_X11Order ==
    pasteOp.session = "X11" =>
        LET a == pasteOp.attempts
        IN  /\ IsPrefix(StrategyNames(a), X11Chain)
            /\ \A i \in 1..(Len(a) - 1) : ~a[i].ok
            /\ pasteOp.pc # "returned" =>
                   /\ \A i \in 1..Len(a) : ~a[i].ok
                   /\ pasteOp.pc = X11Chain[Len(a) + 1]
            /\ pasteOp.pc = "returned" => a # <<>>

\* X11, three failures, then the virtual device succeeds.
C4_Witness ==
    /\ pasteOp.session = "X11"
    /\ pasteOp.pc = "returned"
    /\ StrategyNames(pasteOp.attempts) = X11Chain
    /\ pasteOp.attempts[4].ok
    /\ pasteOp.result = "Ok"

\* C5: the call returns Ok exactly when an attempted strategy succeeded and
\* the exhaustion error exactly when the whole chain of the session type was
\* attempted and failed; no strategy's own error is ever the result, and
\* nothing is returned while a later strategy remains.
C5_ResultIsChainResult ==
    LET a == pasteOp.attempts
    IN  /\ pasteOp.pc \notin {"idle", "returned"} => pasteOp.result = "pending"
        /\ pasteOp.pc = "returned" =>
               /\ pasteOp.result \in {"Ok", AllFailed}
               /\ pasteOp.result = "Ok" <=> \E i \in 1..Len(a) : a[i].ok
               /\ pasteOp.result = AllFailed <=>
                      /\ StrategyNames(a) = ChainFor(pasteOp.session)
                      /\ \A i \in 1..Len(a) : ~a[i].ok

\* The chain is exhausted in X11, the last failure being the permission
\* failure on the device node.
C5_Witness ==
    /\ pasteOp.pc = "returned"
    /\ pasteOp.session = "X11"
    /\ pasteOp.result = AllFailed
    /\ Len(pasteOp.attempts) = 4
    /\ pasteOp.attempts[4].failed = "open(/dev/uinput)"

\* C6: in a Wayland or Unknown session XTest and xdotool are never run: the
\* call runs enigo, then uinput only if enigo failed, and returns Ok if
\* either succeeded and the exhaustion error otherwise.
C6_NonX11Chain ==
    pasteOp.session \in {"Wayland", "Unknown"} =>
        LET a == pasteOp.attempts
        IN  /\ \A i \in 1..Len(a) : a[i].name \in {"enigo", "uinput"}
            /\ pasteOp.pc = "returned" =>
                   /\ StrategyNames(a) \in {<<"enigo">>, <<"enigo", "uinput">>}
                   /\ Len(a) = 2 <=> ~a[1].ok
                   /\ pasteOp.result = "Ok" <=> a[Len(a)].ok
                   /\ pasteOp.result = AllFailed <=> ~a[Len(a)].ok

\* No session signal at all: enigo fails, uinput succeeds.
C6_Witness ==
    /\ pasteOp.session = "Unknown"
    /\ pasteOp.pc = "returned"
    /\ StrategyNames(pasteOp.attempts) = FallbackChain
    /\ pasteOp.attempts[2].ok
    /\ pasteOp.result = "Ok"

----------------------------------------------------------------------------
(* Properties: GIF publishing *)

LastAttempt == gifOp.attempts[Len(gifOp.attempts)]

\* C7 as stated: in a Wayland session a failed wl-copy attempt is followed by
\* xclip, a failed xclip attempt by the plain-text publish of the URL, and
\* whenever the standard clipboard API works the operation returns success
\* with some representation published.
C7_AlwaysPublishes ==
    (gifOp.pc = "returned" /\ gifOp.is_wayland) =>
        LET a == gifOp.attempts
        IN  /\ (a # <<>> /\ ~a[1].ok) => (Len(a) = 2 /\ a[2].helper = "xclip")
            /\ (Len(a) = 2 /\ ~a[2].ok) => gifOp.fallback # "none"
            /\ gifOp.fallback = "ok" => gifOp.published = PlainText(gifOp.url)
            /\ gifOp.fallback \in {"none", "ok"} =>
                   /\ gifOp.result.kind = "Ok"
                   /\ gifOp.published # Nothing

\* C8 as stated: when the last helper tried failed because it could not be
\* spawned (missing tool or spawn error) or exited non-zero, the operation
\* uses the plain-text fallback and does not report the file URI.
C8_FallbackOnHelperFailure ==
    (/\ gifOp.pc = "returned"
     /\ gifOp.attempts # <<>>
     /\ LastAttempt.cause \in {"spawn_failed", "exited_nonzero"}) =>
        /\ gifOp.fallback # "none"
        /\ gifOp.result.type # "file_uri"

\* C9: the returned string is the file URI of the cached file exactly when
\* the last helper tried reported success, the source URL exactly when the
\* plain-text fallback ran and succeeded, and an error exactly when the
\* fallback ran and failed.
C9_ResultIdentifiesPublisher ==
    gifOp.pc = "returned" =>
        /\ gifOp.result.kind \in {"Ok", "Err"}
        /\ gifOp.result = Ok_FileUri(UrlHash(gifOp.url)) <=>
               (gifOp.attempts # <<>> /\ LastAttempt.ok)
        /\ gifOp.result = Ok_Url(gifOp.url) <=> gifOp.fallback = "ok"
        /\ gifOp.result.kind = "Err" <=>
               gifOp.fallback \in {"open_failed", "set_text_failed"}

\* Both helpers reported failure in a Wayland session and the URL was
\* published as text.
C9_Witness ==
    /\ gifOp.pc = "returned"
    /\ gifOp.is_wayland
    /\ Len(gifOp.attempts) = 2
    /\ gifOp.result = Ok_Url(gifOp.url)
    /\ gifOp.published = PlainText(gifOp.url)

\* C10 as stated: a successful fetch that follows a successful fetch of the
\* same URL returns the same path and sends no network request.
C10_SecondFetchIsCacheHit ==
    [][(/\ gifOp.pc = "download"
        /\ lastFetch.ok
        /\ lastFetch'.ok
        /\ lastFetch'.url = lastFetch.url) =>
           (/\ lastFetch'.path = lastFetch.path
            /\ lastFetch'.net = 0)]_vars

----------------------------------------------------------------------------
(* Properties: concurrent first access to the session type *)

\* C11: when several threads call get_session_type concurrently, detect is
\* evaluated at most once in total and every caller that has returned holds
\* the one value that evaluation computed.
C11_ConcurrentFirstAccess ==
    /\ detectRuns <= 1
    /\ \A t \in Threads :
          threads[t].pc = "returned" =>
              /\ detectRuns = 1
              /\ threads[t].ret = firstValue
              /\ threads[t].ret \in SessionTypes

\* Every thread has returned, one of them after arriving while another was
\* inside the closure, and the environment has since changed to one that
\* would be detected differently.
C11_Witness ==
    /\ \A t \in Threads : threads[t].pc = "returned"
    /\ \E t \in Threads : threads[t].waited
    /\ detect(env).session # firstValue

----------------------------------------------------------------------------
(* Properties: focus restore and save *)

\* C12: a restore that reports success for a non-zero handle h has issued,
\* in this order, one focus-set request on exactly h with parent-propagated
\* revert and the current-time timestamp, a flush, and a sleep of the full
\* settle interval; the sleep is the last thing before the result.
C12_RestoreSuccessOrder ==
    (focusOp.op = "restore" /\ focusOp.result = "Ok") =>
        LET c == focusOp.calls
            h == focusOp.window
        IN  /\ h # 0
            /\ h = LAST_FOCUSED_WINDOW
            /\ Len(c) = 4
            /\ c[1].call = "connect"
            /\ c[2].call = "set_input_focus"
            /\ c[2].window = h
            /\ c[2].revert_to = "PARENT"
            /\ c[2].time = "CURRENT_TIME"
            /\ c[3].call = "flush"
            /\ c[4].call = "sleep"
            /\ c[4].ms >= FOCUS_RESTORE_DELAY

\* A restore of a saved handle has reported success.
C12_Witness ==
    /\ focusOp.op = "restore"
    /\ focusOp.result = "Ok"
    /\ focusOp.window \in WindowIds
    /\ savedEver

\* The session type get_session_type() returns in this state.
SessionNow == get_or_init(SESSION_TYPE, env).cell

IssuesFocusSet(calls) ==
    \E i \in 1..Len(calls) : calls[i].call = "set_input_focus"

\* C13: when the session type is Wayland the focus tracker does nothing:
\* no save has changed the slot from its initial value and no restore has
\* issued a focus-set request.
C13_NoOpUnderWayland ==
    SessionNow = "Wayland" =>
        /\ LAST_FOCUSED_WINDOW = 0
        /\ focusOp.op = "restore" => ~IssuesFocusSet(focusOp.calls)

SaveFailures == {"connect", "get_input_focus", "reply"}

\* C18: a save that fails to connect, to send the focus query or to obtain
\* its reply leaves the slot exactly as it was and returns nothing but unit
\* to its caller.
C18_FailedSaveKeepsSlot ==
    [][(focusOp'.op = "save" /\ focusOp'.result \in SaveFailures) =>
           (/\ LAST_FOCUSED_WINDOW' = LAST_FOCUSED_WINDOW
            /\ focusOp'.ret = "()")]_vars

\* A save has failed after an earlier save stored a window, while the focus
\* is on another window; the slot still holds the stored window.
C18_Witness ==
    /\ focusOp.op = "save"
    /\ focusOp.result \in SaveFailures
    /\ savedEver
    /\ LAST_FOCUSED_WINDOW \in WindowIds
    /\ xFocus # LAST_FOCUSED_WINDOW

RestoreResults ==
    {restore_result(w, f) :
        w \in WindowIds \cup {0},
        f \in {"none", "connect", "set_input_focus", "flush"}}

\* C19: a restore, whether it succeeds or fails, leaves the slot as it is,
\* targets exactly the handle held by the slot and returns a result (also
\* when the window has been destroyed); only a save that stored a reply
\* changes the slot.
C19_RestoreKeepsSlot ==
    [][/\ focusOp'.op = "restore" =>
            /\ LAST_FOCUSED_WINDOW' = LAST_FOCUSED_WINDOW
            /\ focusOp'.window = LAST_FOCUSED_WINDOW
            /\ focusOp'.ret \in RestoreResults
            /\ \A i \in 1..Len(focusOp'.calls) :
                   focusOp'.calls[i].call = "set_input_focus" =>
                       focusOp'.calls[i].window = LAST_FOCUSED_WINDOW
       /\ LAST_FOCUSED_WINDOW' # LAST_FOCUSED_WINDOW =>
            (focusOp'.op = "save" /\ focusOp'.result = "stored")]_vars

\* A restore of a saved window that has since been destroyed has returned,
\* and the slot still holds the window.
C19_Witness ==
    /\ focusOp.op = "restore"
    /\ focusOp.ret = "Ok"
    /\ savedEver
    /\ focusOp.window \in WindowIds \ xWindows
    /\ LAST_FOCUSED_WINDOW = focusOp.window

\* C23: under every interleaving of save and restore threads, the handle a
\* restore has loaded and targets is one whose store by some save has
\* completed, never a mix of two handles; a restore that loaded the sentinel
\* has returned the no-previous-window error.
C23_AtomicSlot ==
    /\ LAST_FOCUSED_WINDOW \in storedValues \cup {0}
    /\ \A t \in Threads :
          LET r == focusThreads[t]
          IN  r.op = "restore" =>
                /\ r.pc = "focus" => (r.val # 0 /\ r.val \in storedValues)
                /\ r.pc = "done" => r.result \in RestoreResults

\* A restore holds the handle it loaded while a later save has already
\* replaced it in the slot and another save is about to store.
C23_Witness ==
    \E t, u \in Threads :
        /\ focusThreads[t].op = "restore"
        /\ focusThreads[t].pc = "focus"
        /\ focusThreads[t].val # LAST_FOCUSED_WINDOW
        /\ focusThreads[u].pc = "store"
        /\ focusThreads[u].val \notin {focusThreads[t].val, LAST_FOCUSED_WINDOW}

\* C27 as stated: once a save has obtained the focus reply and stored it,
\* the slot does not hold the sentinel 0, and every later restore targets the
\* stored handle instead of returning the no-previous-window error.
C27_SentinelOnlyBeforeFirstSave ==
    savedEver =>
        /\ LAST_FOCUSED_WINDOW # 0
        /\ focusOp.op = "restore" =>
              /\ focusOp.ret # restore_result(0, "none")
              /\ focusOp.window = LAST_FOCUSED_WINDOW

----------------------------------------------------------------------------
(* Properties: GIF publisher under Wayland, cache files *)

\* Outcomes in which the Wayland helper itself is missing or broken.
WlCopyFaults ==
    {"spawn_failed", "write_failed", "try_wait_failed", "exited_nonzero"}

\* A publish operation has returned in a session detected as Wayland from
\* XDG_SESSION_TYPE, with the file downloaded and no fault of the helper.
WaylandPublishReturned ==
    /\ gifOp.pc = "returned"
    /\ gifOp.is_wayland
    /\ detect(firstSnapshot).source = "XDG_SESSION_TYPE"
    /\ gifOp.downloaded
    /\ Len(gifOp.attempts) >= 1
    /\ gifOp.attempts[1].cause \notin WlCopyFaults

\* The operation went through wl-copy, which received the URI payload, and
\* returned the file URI.
PublishedThroughWlCopy ==
    LET a == gifOp.attempts[1]
    IN  /\ Len(gifOp.attempts) = 1
        /\ a.helper = "wl-copy"
        /\ a.spawned
        /\ \E i \in 1..Len(a.steps) :
               /\ a.steps[i].call = "write_stdin"
               /\ a.steps[i].payload = UriList("wl-copy", UrlHash(gifOp.url))
        /\ gifOp.published = UriList("wl-copy", UrlHash(gifOp.url))
        /\ gifOp.result = Ok_FileUri(UrlHash(gifOp.url))

\* C14 as stated: with the session detected as Wayland from
\* XDG_SESSION_TYPE=wayland and a working Wayland helper, publishing a valid
\* local file goes through the helper and returns a file URI, whatever the
\* other environment signals are.
C14_WaylandHelperAsStated ==
    WaylandPublishReturned => PublishedThroughWlCopy

\* C14 amended: the same when WAYLAND_DISPLAY and XDG_RUNTIME_DIR are both
\* set to valid Unicode, whatever DISPLAY is.
C14_WaylandHelperAmended ==
    (/\ WaylandPublishReturned
     /\ env_var(env, "WAYLAND_DISPLAY").ok
     /\ env_var(env, "XDG_RUNTIME_DIR").ok) => PublishedThroughWlCopy

\* The operation returned through wl-copy while an X display was also set.
C14_Witness ==
    /\ WaylandPublishReturned
    /\ env_var(env, "WAYLAND_DISPLAY").ok
    /\ env_var(env, "XDG_RUNTIME_DIR").ok
    /\ env_var(env, "DISPLAY").ok
    /\ PublishedThroughWlCopy

\* C17 as stated: once the cache file of a URL has been written by a fetch
\* of that URL, a later fetch of the same URL does not create (truncate) the
\* file again and leaves its content as it is.
C17_CacheFilesImmutable ==
    [][(/\ gifOp.pc = "download"
        /\ lastFetch.ok
        /\ lastFetch.url = gifOp.url
        /\ files[UrlHash(gifOp.url)] \in Contents) =>
           (/\ ~lastFetch'.created
            /\ files'[UrlHash(gifOp.url)] = files[UrlHash(gifOp.url)])]_vars

\* The health check of one wl-copy attempt a that got as far as the poll.
HealthCheckOf(a) ==
    LET st == a.steps
        n == Len(st)
    IN  /\ n >= 5
        /\ st[1].call = "spawn" /\ st[1].helper = "wl-copy"
        /\ st[2].call = "write_stdin"
        /\ st[2].payload.type = "text/uri-list"
        /\ st[3].call = "close_stdin"
        /\ st[4].call = "sleep" /\ st[4].ms >= WlCopySettleMs
        /\ st[5].call = "try_wait"
        /\ Cardinality({i \in 1..n : st[i].call = "try_wait"}) = 1
        /\ a.cause = "running" => (a.ok /\ n = 5)
        /\ a.cause = "exited_zero" => a.ok
        /\ a.cause = "exited_nonzero" => ~a.ok

\* C20: every wl-copy attempt whose helper was spawned and written to has,
\* in order, spawned the helper, written the URI payload to its stdin,
\* closed the stream, slept the settle interval and only then polled the
\* process once; still running is success, exit zero is success, non-zero
\* exit is failure, and with the helper still running the caller returns
\* without waiting for its exit.
C20_WlCopyHealthCheck ==
    \A i \in 1..Len(gifOp.attempts) :
        LET a == gifOp.attempts[i]
        IN  (/\ a.helper = "wl-copy"
             /\ a.cause \in {"running", "exited_zero", "exited_nonzero",
                              "try_wait_failed"}) => HealthCheckOf(a)

\* A publish operation has returned through a wl-copy that was still
\* running when polled.
C20_Witness ==
    /\ gifOp.pc = "returned"
    /\ Len(gifOp.attempts) = 1
    /\ gifOp.attempts[1].helper = "wl-copy"
    /\ gifOp.attempts[1].cause = "running"
    /\ gifOp.result = Ok_FileUri(UrlHash(gifOp.url))

\* C24: a fetch sends at most one request; when the transport fails or the
\* status is not a success status it returns a failure and no cache file is
\* created or changed; the publish operation then goes to the plain-text
\* fallback without trying a helper, and the fallback publishes the source
\* URL (or returns the clipboard error).
C24_FetchFailure ==
    [][/\ (gifOp.pc = "download" /\ gifOp'.pc # "download") =>
            /\ lastFetch'.net <= 1
            /\ lastFetch'.failed \in {"send", "status"} =>
                  /\ ~lastFetch'.ok
                  /\ ~lastFetch'.created
                  /\ files' = files
                  /\ gifOp'.pc = "fallback"
                  /\ gifOp'.attempts = <<>>
       /\ (gifOp.pc = "fallback" /\ gifOp'.pc = "returned"
             /\ ~gifOp.downloaded) =>
            /\ gifOp'.attempts = <<>>
            /\ gifOp'.result \in {Ok_Url(gifOp.url), Err_Clipboard}
            /\ gifOp'.result = Ok_Url(gifOp.url) <=>
                    gifOp'.published = PlainText(gifOp.url)
            /\ gifOp'.result = Err_Clipboard <=> gifOp'.published = Nothing]_vars

\* A fetch of a URL whose file is already cached has failed on the response
\* status; the file is as it was and the source URL has been published.
C24_Witness ==
    /\ gifOp.pc = "returned"
    /\ lastFetch.url = gifOp.url
    /\ lastFetch.failed = "status"
    /\ files[UrlHash(gifOp.url)] \in Contents
    /\ gifOp.result = Ok_Url(gifOp.url)
    /\ gifOp.published = PlainText(gifOp.url)

\* C25: in a session that is not Wayland (X11 or Unknown) no publish
\* operation tries or spawns wl-copy and the first helper tried is xclip;
\* in every session type xclip is tried, and so spawned, at most once per
\* publish operation.
C25_NoWlCopyOutsideWayland ==
    LET a == gifOp.attempts
    IN  /\ (gifOp.pc # "idle" /\ SESSION_TYPE \in {"X11", "Unknown"}) =>
              /\ gifOp.pc # "wl-copy"
              /\ \A i \in 1..Len(a) : a[i].helper # "wl-copy"
              /\ a # <<>> => a[1].helper = "xclip"
              /\ (gifOp.downloaded /\ a = <<>>) => gifOp.pc = "xclip"
        /\ Cardinality({i \in 1..Len(a) : a[i].helper = "xclip"}) <= 1
        /\ (gifOp.pc = "xclip") => \A i \in 1..Len(a) : a[i].helper # "xclip"

\* In an X11 session the file has been published through xclip, spawned
\* once, without wl-copy.
C25_Witness ==
    /\ gifOp.pc = "returned"
    /\ SESSION_TYPE = "X11"
    /\ Len(gifOp.attempts) = 1
    /\ gifOp.attempts[1].helper = "xclip"
    /\ gifOp.attempts[1].spawned
    /\ gifOp.published = UriList("xclip", UrlHash(gifOp.url))

----------------------------------------------------------------------------
(* Properties: termination of the paste chain *)

\* The steps of a paste simulation that has been entered.
PasteStep ==
    \/ simulate_paste_xtest
    \/ simulate_paste_xdotool
    \/ simulate_paste_enigo
    \/ simulate_paste_uinput

\* The steps of a publish operation that has been entered.
PublishStep ==
    \/ DownloadStep
    \/ WaylandStep
    \/ X11Step
    \/ FallbackStep

\* C15: no call hangs: a paste simulation or a publish operation that has
\* not returned is never waiting without a time bound, that is, it can
\* always take its next step, even when a helper process never exits.
C15_NoCallHangs ==
    /\ pasteOp.pc \notin {"idle", "returned"} => ENABLED PasteStep
    /\ gifOp.pc \notin {"idle", "returned"} => ENABLED PublishStep

AttemptedNames(a) == {a[i].name : i \in 1..Len(a)}

AllStrategies == {X11Chain[i] : i \in 1..Len(X11Chain)}

\* C16: when the strategy in progress returns, it is the one strategy that
\* ran, it had not been attempted before, it adds one attempt to at most
\* four, and the chain either returns or moves to a strategy not yet
\* attempted: no strategy is retried or revisited and the call returns after
\* at most four attempts.
C16_ChainTerminates ==
    [][(/\ pasteOp.pc \in AllStrategies
        /\ pasteOp' # pasteOp
        /\ pasteOp'.blocked = "no") =>
            LET a == pasteOp.attempts
                b == pasteOp'.attempts
            IN  /\ Len(b) = Len(a) + 1
                /\ SubSeq(b, 1, Len(a)) = a
                /\ b[Len(b)].name = pasteOp.pc
                /\ pasteOp.pc \notin AttemptedNames(a)
                /\ Cardinality(AttemptedNames(b)) = Len(b)
                /\ Len(b) <= 4
                /\ \/ pasteOp'.pc = "returned" /\ pasteOp'.result # "pending"
                   \/ /\ pasteOp'.pc \in AllStrategies \ AttemptedNames(b)
                      /\ ~b[Len(b)].ok]_vars

\* The call has returned after four attempts, one per strategy.
C16_Witness ==
    /\ pasteOp.pc = "returned"
    /\ AttemptedNames(pasteOp.attempts) = AllStrategies
    /\ Len(pasteOp.attempts) = 4

----------------------------------------------------------------------------
(* Properties: key events of the strategies *)

\* The positions of the completed steps of attempt a that are key events.
KeyPositions(a) ==
    {i \in 1..Len(a.done) : KeyEventOf(a.done[i]) # NoKeyEvent}

\* The key events of attempt a, in the order of their steps.
KeyEvents(a) ==
    LET IsKey(step) == KeyEventOf(step) # NoKeyEvent
        ks == SelectSeq(a.done, IsKey)
    IN  [i \in 1..Len(ks) |-> KeyEventOf(ks[i])]

PasteCombination ==
    << [key |-> "Control", dir |-> "press"], [key |-> "V", dir |-> "press"],
       [key |-> "V", dir |-> "release"], [key |-> "Control", dir |-> "release"] >>

\* C22: an XTest or uinput run that reports success has emitted exactly
\* press-Control, press-V, release-V, release-Control in that order, each
\* immediately followed by its delivery step (flush, or the SYN_REPORT
\* write); and no run, successful or not, has emitted a key event before
\* its preparation completed (version reply then sync; device creation
\* then the settle sleep).
C22_FourEventsInOrder ==
    \A n \in 1..Len(pasteOp.attempts) :
        LET a == pasteOp.attempts[n]
            prep == Preparation(a.name)
        IN  a.name \in {"xtest", "uinput"} =>
               /\ a.ok =>
                     /\ KeyEvents(a) = PasteCombination
                     /\ \A i \in KeyPositions(a) :
                           /\ i < Len(a.done)
                           /\ a.done[i + 1] = DeliveryStep(a.name)
               /\ \A i \in KeyPositions(a) :
                     \E j, k \in 1..(i - 1) :
                         /\ j < k
                         /\ a.done[j] = prep[1]
                         /\ a.done[k] = prep[2]

\* In a Wayland session enigo failed and the virtual device then reported
\* success.
C22_Witness ==
    /\ pasteOp.pc = "returned"
    /\ pasteOp.session = "Wayland"
    /\ Len(pasteOp.attempts) = 2
    /\ pasteOp.attempts[2].name = "uinput"
    /\ pasteOp.attempts[2].ok
    /\ KeyEvents(pasteOp.attempts[2]) = PasteCombination


Did(a, step) == \E i \in 1..Len(a.done) : a.done[i] = step

\* C21 as stated: every run of the virtual-device strategy that created the
\* device (UI_DEV_CREATE succeeded) has issued the UI_DEV_DESTROY control
\* call by the time it returns, also when a write failed.
C21_DeviceDestroyed ==
    \A i \in 1..Len(pasteOp.attempts) :
        LET a == pasteOp.attempts[i]
        IN  (a.name = "uinput" /\ Did(a, "ioctl(UI_DEV_CREATE)")) =>
                Did(a, "ioctl(UI_DEV_DESTROY)")

\* The number of events of direction dir that attempt a emitted for key.
EventCount(a, key, dir) ==
    Cardinality({i \in KeyPositions(a) :
                    KeyEventOf(a.done[i]) = [key |-> key, dir |-> dir]})

\* The keys attempt a has pressed and not released (a click is both).
HeldKeys(a) ==
    {key \in {"Control", "V"} :
        EventCount(a, key, "press") > EventCount(a, key, "release")}

\* C28 as stated: every strategy that has returned, with success or with
\* failure, has emitted a release for every key it emitted a press for.
C28_NoKeyLeftPressed ==
    \A n \in 1..Len(pasteOp.attempts) : HeldKeys(pasteOp.attempts[n]) = {}

\* C29 as stated: a strategy that has returned failure has emitted no key
\* event, so that within one call at most one strategy emits key events.
C29_FailedStrategyEmittedNothing ==
    LET a == pasteOp.attempts
    IN  /\ \A n \in 1..Len(a) : ~a[n].ok => KeyPositions(a[n]) = {}
        /\ Cardinality({n \in 1..Len(a) : KeyPositions(a[n]) # {}}) <= 1

----------------------------------------------------------------------------
(* Properties: ConfigManager *)

\* C26: update_state changes the state in memory, sets dirty and leaves the
\* disk alone; sync_to_disk attempts the write exactly when dirty is set,
\* never changes the state in memory, leaves dirty false and the file equal
\* to the state after a successful write, and leaves dirty true after a
\* failed one; without unsaved changes it does nothing.
C26_DirtyFlagProtocol ==
    [][/\ configOp'.op = "update_state" =>
            (disk' = disk /\ config'.dirty /\ ~configOp'.attempted)
       /\ configOp'.op = "sync_to_disk" =>
            /\ configOp'.attempted <=> config.dirty
            /\ config'.state = config.state
            /\ (configOp'.attempted /\ configOp'.ok) =>
                   (~config'.dirty /\ disk' = FileWith(config.state))
            /\ (configOp'.attempted /\ ~configOp'.ok) => config'.dirty
            /\ ~configOp'.attempted => (disk' = disk /\ ~config'.dirty)]_vars

\* A write has failed after an earlier state was saved: the unsaved state is
\* still marked dirty and the file does not hold it.
C26_Witness ==
    /\ configOp.op = "sync_to_disk"
    /\ configOp.attempted
    /\ ~configOp.ok
    /\ config.dirty
    /\ disk.kind = "file"
    /\ disk.content # config.state

====
